---- MODULE Spec2Model ----
(***************************************************************************)
(* Model of minijinja's dynamic-object protocol                            *)
(* (minijinja/src/value/object.rs: trait Object and its forwarding impl    *)
(* for std::sync::Arc<T>) and of the example program examples/expr.rs.     *)
(***************************************************************************)
EXTENDS Integers, Sequences, FiniteSets, TLC

VARIABLES
    ty,      \* the host type T behind the object: which trait methods it overrides
    cell,    \* T's interior-mutable state (a Mutex-guarded counter), object.rs:18-20
    depth,   \* number of Arc layers around T in the handle the engine invokes
    state,   \* the interpreter State the engine lends to call_method / call
    last,    \* the last protocol invocation made through the handle, with its result
    iter,    \* the iterator returned by the last attributes() call
    thr,     \* per-thread invocation in flight through an Arc handle
    argv,    \* expr: the process arguments
    pc,      \* expr: position in main
    env,     \* expr: whether Environment::new() has run
    expr,    \* expr: result of compile_expression
    result,  \* expr: result of eval
    serialized, \* expr: result of to_string_pretty
    stdout,  \* expr: lines written to standard output
    stderr,  \* expr: lines written to standard error
    status   \* expr: process exit status once exited

objVars == <<ty, cell, depth, state, last, iter>>
exprVars == <<argv, pc, env, expr, result, serialized, stdout, stderr, status>>
vars == <<ty, cell, depth, state, last, iter, thr,
          argv, pc, env, expr, result, serialized, stdout, stderr, status>>

----------------------------------------------------------------------------
(* Bounds *)

MaxNameLen == 1     \* attribute / method names have at most this many characters
MaxArgs == 1        \* argument lists have at most this many values
MaxDepth == 2       \* at most this many Arc layers around T
MaxCell == 1        \* the host object's counter is capped here
MaxState == 1       \* number of distinct interpreter State handles
MaxArgc == 3        \* expr: at most this many process arguments
NumThreads == 2     \* threads invoking the object concurrently

Alphabet == {"x", "y"}

RECURSIVE NamesUpTo(_)
NamesUpTo(n) ==
    IF n = 0 THEN {""}
    ELSE LET shorter == NamesUpTo(n - 1)
         IN  shorter \cup {s \o c : s \in shorter, c \in Alphabet}

Names == NamesUpTo(MaxNameLen)

States == 1..MaxState

----------------------------------------------------------------------------
(* Value, Option<Value>, Result<Value, Error> and the attribute iterator,   *)
(* all in one record shape so that results of different operations compare. *)

Undefined == [kind |-> "Undefined", int |-> 0]
IntV(n) == [kind |-> "Int", int |-> n]

ArgValues == {Undefined}

RECURSIVE SeqsUpTo(_, _)
SeqsUpTo(S, n) ==
    IF n = 0 THEN {<<>>}
    ELSE LET shorter == SeqsUpTo(S, n - 1)
         IN  shorter \cup {Append(s, v) : s \in shorter, v \in S}

ArgLists == SeqsUpTo(ArgValues, MaxArgs)

None == [tag |-> "None", value |-> Undefined, kind |-> "", msg |-> "", items |-> <<>>]
Some(v) == [tag |-> "Some", value |-> v, kind |-> "", msg |-> "", items |-> <<>>]
Ok(v) == [tag |-> "Ok", value |-> v, kind |-> "", msg |-> "", items |-> <<>>]
Err(k, m) == [tag |-> "Err", value |-> Undefined, kind |-> k, msg |-> m, items |-> <<>>]
Iter(s) == [tag |-> "Iter", value |-> Undefined, kind |-> "", msg |-> "", items |-> s]

\* format!("object has no method named {}", name)
FormatNoMethod(name) == "object has no method named " \o name

\* Whether the string n occurs in the string m.
Contains(m, n) ==
    \E i \in 1..(Len(m) + 1) :
        /\ i + Len(n) - 1 <= Len(m)
        /\ SubSeq(m, i, i + Len(n) - 1) = n

----------------------------------------------------------------------------
(* The trait's provided (default) methods.  Every method takes &self, here  *)
(* the interior state, and returns its result with the interior state it    *)
(* leaves behind.                                                           *)

\* Faulty variants of the provided methods, used to test the properties below.
Object_get_attr_Undefined(self, name) == [ret |-> Some(Undefined), self |-> self]

Object_get_attr_Counting(self, name) == [ret |-> None, self |-> self + 1]

Object_attributes_Blank(self) == [ret |-> Iter(<<"">>), self |-> self]

Object_call_method_NotCallable(self, st, name, args) ==
    [ret |-> Err("InvalidOperation", "tried to call non callable object"),
     self |-> self]

Object_call_method_OtherKind(self, st, name, args) ==
    [ret |-> Err("UndefinedError", FormatNoMethod(name)), self |-> self]

Object_call_Undefined(self, st, args) == [ret |-> Ok(Undefined), self |-> self]

Object_get_attr(self, name) == [ret |-> None, self |-> self]

Object_attributes(self) == [ret |-> Iter(<<>>), self |-> self]

Object_call_method(self, st, name, args) ==
    [ret |-> Err("InvalidOperation", FormatNoMethod(name)), self |-> self]

Object_call(self, st, args) ==
    [ret |-> Err("InvalidOperation", "tried to call non callable object"),
     self |-> self]

----------------------------------------------------------------------------
(* Host types.  A host type overrides any subset of the four methods.  An   *)
(* overriding method follows the trait's documentation: attribute access    *)
(* has no side effects; call_method generates an error for a method it      *)
(* does not know, with an error kind of the implementer's choosing; method  *)
(* and direct calls may change the interior state.                          *)

\* ErrorKind (crate::error): InvalidOperation is the kind the provided methods
\* use; UndefinedError stands for any other kind an implementor may pick.
ErrorKinds == {"InvalidOperation", "UndefinedError"}

HostTypes ==
    [get_attr : BOOLEAN, attributes : BOOLEAN,
     call_method : {"default"} \cup ErrorKinds, call : BOOLEAN]

KnownSeq == <<"x">>
Known == {KnownSeq[i] : i \in 1..Len(KnownSeq)}

Host_get_attr(self, name) ==
    [ret |-> IF name = "x" THEN Some(IntV(self)) ELSE None, self |-> self]

Host_attributes(self) == [ret |-> Iter(KnownSeq), self |-> self]

Host_call_method(T, self, st, name, args) ==
    IF name = "x" THEN [ret |-> Ok(IntV(self + Len(args))), self |-> self + 1]
    ELSE [ret |-> Err(T.call_method, "unknown method " \o name), self |-> self]

Host_call(self, st, args) == [ret |-> Ok(IntV(Len(args))), self |-> self]

\* A call as it arrives at a receiver.  get_attr and attributes carry no
\* State (written 0) and no arguments.
Calls ==
    {[op |-> "get_attr", state |-> 0, name |-> n, args |-> <<>>] : n \in Names}
    \cup {[op |-> "attributes", state |-> 0, name |-> "", args |-> <<>>]}
    \cup {[op |-> "call_method", state |-> s, name |-> n, args |-> a] :
              s \in States, n \in Names, a \in ArgLists}
    \cup {[op |-> "call", state |-> s, name |-> "", args |-> a] :
              s \in States, a \in ArgLists}

\* Static dispatch on T: the override if T has one, else the provided method.
T_invoke(T, self, c) ==
    CASE c.op = "get_attr" ->
            IF T.get_attr THEN Host_get_attr(self, c.name)
            ELSE Object_get_attr(self, c.name)
      [] c.op = "attributes" ->
            IF T.attributes THEN Host_attributes(self)
            ELSE Object_attributes(self)
      [] c.op = "call_method" ->
            IF T.call_method # "default"
            THEN Host_call_method(T, self, c.state, c.name, c.args)
            ELSE Object_call_method(self, c.state, c.name, c.args)
      [] c.op = "call" ->
            IF T.call THEN Host_call(self, c.state, c.args)
            ELSE Object_call(self, c.state, c.args)

----------------------------------------------------------------------------
(* impl<T: Object> Object for Arc<T>: each method makes one call on the     *)
(* wrapped T and returns what that call returns.                            *)

\* Faulty variant: call_method forwarded to the wrapped value's call.
Arc_call_method_Swapped(st, name, args) ==
    [op |-> "call", state |-> st, name |-> "", args |-> args]

Arc_get_attr(name) ==
    [op |-> "get_attr", state |-> 0, name |-> name, args |-> <<>>]

Arc_attributes ==
    [op |-> "attributes", state |-> 0, name |-> "", args |-> <<>>]

Arc_call_method(st, name, args) ==
    [op |-> "call_method", state |-> st, name |-> name, args |-> args]

Arc_call(st, args) ==
    [op |-> "call", state |-> st, name |-> "", args |-> args]

\* The call one Arc layer makes on the value it wraps.
Arc_forward(c) ==
    CASE c.op = "get_attr" -> Arc_get_attr(c.name)
      [] c.op = "attributes" -> Arc_attributes
      [] c.op = "call_method" -> Arc_call_method(c.state, c.name, c.args)
      [] c.op = "call" -> Arc_call(c.state, c.args)

\* A call on a handle of n Arc layers around T.
RECURSIVE Invoke(_, _, _, _)
Invoke(n, T, self, c) ==
    IF n = 0 THEN T_invoke(T, self, c)
    ELSE Invoke(n - 1, T, self, Arc_forward(c))

----------------------------------------------------------------------------
(* The object protocol driven by one engine thread.                         *)

NoCall == [op |-> "none", state |-> 0, name |-> "", args |-> <<>>]

NoInvocation == [call |-> NoCall, pre |-> 0, post |-> 0, ret |-> None]

NoIter == [items |-> <<>>, pos |-> 0]

ThreadIds == 1..NumThreads

IdleThread == [pc |-> "idle", orig |-> NoCall, cur |-> NoCall, n |-> 0,
               level |-> 0, ret |-> None]

ExprOff ==
    /\ argv = <<>>
    /\ pc = "off"
    /\ env = FALSE
    /\ expr = "none"
    /\ result = "none"
    /\ serialized = "none"
    /\ stdout = <<>>
    /\ stderr = <<>>
    /\ status = 0

Init ==
    /\ ty \in HostTypes
    /\ cell = 0
    /\ depth \in 0..MaxDepth
    /\ state \in States
    /\ last = NoInvocation
    /\ iter = NoIter
    /\ thr = [t \in ThreadIds |-> IdleThread]
    /\ ExprOff

\* The engine makes call c on the handle: the object's interior state, the
\* record of the invocation and the live iterator after it.
Dispatch(c) ==
    LET r == Invoke(depth, ty, cell, c)
    IN  /\ r.self <= MaxCell
        /\ cell' = r.self
        /\ last' = [call |-> c, pre |-> cell, post |-> r.self, ret |-> r.ret]
        /\ iter' = IF r.ret.tag = "Iter"
                   THEN [items |-> r.ret.items, pos |-> 0]
                   ELSE iter

GetAttr ==
    /\ \E name \in Names :
           Dispatch([op |-> "get_attr", state |-> 0, name |-> name,
                     args |-> <<>>])
    /\ UNCHANGED <<ty, depth, state, thr>>
    /\ UNCHANGED exprVars

Attributes ==
    /\ Dispatch([op |-> "attributes", state |-> 0, name |-> "", args |-> <<>>])
    /\ UNCHANGED <<ty, depth, state, thr>>
    /\ UNCHANGED exprVars

CallMethod ==
    /\ \E name \in Names, args \in ArgLists :
           Dispatch([op |-> "call_method", state |-> state, name |-> name,
                     args |-> args])
    /\ UNCHANGED <<ty, depth, state, thr>>
    /\ UNCHANGED exprVars

Call ==
    /\ \E args \in ArgLists :
           Dispatch([op |-> "call", state |-> state, name |-> "",
                     args |-> args])
    /\ UNCHANGED <<ty, depth, state, thr>>
    /\ UNCHANGED exprVars

\* The engine's for loop takes the next name from the enumeration.
IterNext ==
    /\ iter.pos < Len(iter.items)
    /\ iter' = [iter EXCEPT !.pos = @ + 1]
    /\ UNCHANGED <<ty, cell, depth, state, last, thr>>
    /\ UNCHANGED exprVars

Next ==
    \/ GetAttr
    \/ Attributes
    \/ CallMethod
    \/ Call
    \/ IterNext

Spec == Init /\ [][Next]_vars

----------------------------------------------------------------------------
(* Properties of the object protocol (specification Spec).                  *)

AllDefault(T) ==
    /\ ~T.get_attr
    /\ ~T.attributes
    /\ T.call_method = "default"
    /\ ~T.call

\* The names T's get_attr answers, and the method names T's call_method knows.
ImplementsAttr(T, name) == T.get_attr /\ name \in Known
Recognizes(T, name) == T.call_method # "default" /\ name \in Known

(* C1: a call made through n >= 1 Arc layers returns exactly what the same  *)
(* call returns when made directly on T in the same interior state (the     *)
(* same value, or the same error kind and message), and leaves T in the     *)
(* same interior state.                                                     *)
C1_WrappingTransparent ==
    (last.call.op # "none" /\ depth >= 1) =>
        [ret |-> last.ret, self |-> last.post] = T_invoke(ty, last.pre, last.call)

C1_Witness ==
    /\ depth = MaxDepth
    /\ depth >= 2
    /\ last.call.op = "call_method"
    /\ ty.call_method = "UndefinedError"
    /\ last.ret.tag = "Err"
    /\ last.ret.kind = "UndefinedError"

(* C2: on an object that does not override call_method, call_method         *)
(* returns an error of kind InvalidOperation whose message contains the     *)
(* requested method name, for every state, name and argument list.          *)
C2_DefaultCallMethodFails ==
    (last.call.op = "call_method" /\ ty.call_method = "default") =>
        /\ last.ret.tag = "Err"
        /\ last.ret.kind = "InvalidOperation"
        /\ Contains(last.ret.msg, last.call.name)

C2_Witness ==
    /\ ty.call_method = "default"
    /\ last.call.op = "call_method"
    /\ last.call.name = "y"
    /\ Len(last.call.args) = MaxArgs
    /\ last.ret.tag = "Err"

(* C3: on an object that does not override call, a direct call returns an   *)
(* error of kind InvalidOperation saying the object is not callable, for    *)
(* every state and argument list, and never a value.                        *)
C3_DefaultCallFails ==
    (last.call.op = "call" /\ ~ty.call) =>
        /\ last.ret.tag = "Err"
        /\ last.ret.kind = "InvalidOperation"
        /\ Contains(last.ret.msg, "non callable object")

C3_Witness ==
    /\ ~ty.call
    /\ last.call.op = "call"
    /\ Len(last.call.args) = MaxArgs
    /\ last.call.state = MaxState
    /\ last.ret.tag = "Err"

(* C4: get_attr returns an Option and never an error; for a name the object *)
(* does not implement it returns None, and an object that does not override *)
(* get_attr returns None for every name.                                    *)
C4_GetAttrNeverFails ==
    (last.call.op = "get_attr") =>
        /\ last.ret.tag \in {"None", "Some"}
        /\ ~ImplementsAttr(ty, last.call.name) => last.ret = None

C4_Witness ==
    /\ ~ty.get_attr
    /\ ty.call_method # "default"
    /\ depth >= 1
    /\ last.call.op = "get_attr"
    /\ last.call.name = "x"
    /\ last.ret = None

(* C5 as claimed: for every object, also one that overrides call_method,    *)
(* call_method with a name the object does not recognize fails with kind    *)
(* InvalidOperation.                                                        *)
C5_Original ==
    (last.call.op = "call_method" /\ ~Recognizes(ty, last.call.name)) =>
        /\ last.ret.tag = "Err"
        /\ last.ret.kind = "InvalidOperation"

(* C5 amended: call_method with a name the object does not recognize fails  *)
(* with kind InvalidOperation when the object does not override call_method *)
(* or when its override itself generates InvalidOperation for unknown       *)
(* names; an override is not given the provided method's behaviour.         *)
C5_UnknownMethodFails ==
    (/\ last.call.op = "call_method"
     /\ ~Recognizes(ty, last.call.name)
     /\ ty.call_method \in {"default", "InvalidOperation"}) =>
        /\ last.ret.tag = "Err"
        /\ last.ret.kind = "InvalidOperation"

C5_Witness ==
    /\ ty.call_method = "default"
    /\ ty.get_attr
    /\ depth >= 1
    /\ last.call.op = "call_method"
    /\ last.call.name = "x"
    /\ last.ret.kind = "InvalidOperation"

(* C6: on an object that does not override attributes, attributes() yields  *)
(* the empty enumeration on every call, without failing and without         *)
(* touching the object, whatever get_attr answers, and the enumeration it   *)
(* hands out starts at the beginning.                                       *)
C6_DefaultAttributesEmpty ==
    (last.call.op = "attributes" /\ ~ty.attributes) =>
        /\ last.ret = Iter(<<>>)
        /\ iter = [items |-> <<>>, pos |-> 0]
        /\ last.post = last.pre

C6_Witness ==
    /\ ty.get_attr
    /\ ~ty.attributes
    /\ cell = MaxCell
    /\ Invoke(depth, ty, cell, Arc_get_attr("x")).ret.tag = "Some"
    /\ last.call.op = "attributes"
    /\ iter.items = <<>>

(* C7: a get_attr or attributes() call, made directly or through Arc        *)
(* layers, leaves the interpreter State and the object's interior state     *)
(* unchanged, so every call of the four operations returns afterwards what  *)
(* it returned before.                                                      *)
C7_AttributeAccessPure ==
    [][(GetAttr \/ Attributes) =>
          /\ cell' = cell
          /\ state' = state
          /\ \A c \in {d \in Calls : d.state \in {0, state}} :
                 Invoke(depth', ty', cell', c) = Invoke(depth, ty, cell, c)]_vars

C7_Witness ==
    /\ ty.get_attr
    /\ depth >= 1
    /\ cell = MaxCell
    /\ cell >= 1
    /\ last.call.op = "get_attr"
    /\ last.ret = Some(IntV(cell))

----------------------------------------------------------------------------
(* examples/expr.rs: main.  compile_expression, eval and to_string_pretty   *)
(* are library calls whose outcome (Ok or Err) is left open here; unwrap()  *)
(* on an Err panics, which ends the process with status 101 after a message *)
(* on standard error.                                                       *)

Words == {"expr", "1 + 1", "1 +"}

Usage == "usage: expr <expression>"

UnwrapMessage == "called Result::unwrap() on an Err value"

\* std::env::vars() panics on a variable that is not valid Unicode.
VarsMessage == "environment variable was not valid unicode"

NotRun == [tag |-> "none", src |-> ""]

ObjOff ==
    /\ ty = [get_attr |-> FALSE, attributes |-> FALSE,
             call_method |-> "default", call |-> FALSE]
    /\ cell = 0
    /\ depth = 0
    /\ state = 1
    /\ last = NoInvocation
    /\ iter = NoIter
    /\ thr = [t \in ThreadIds |-> IdleThread]

ExprInit ==
    /\ argv \in SeqsUpTo(Words, MaxArgc)
    /\ pc = "main"
    /\ env = FALSE
    /\ expr = NotRun
    /\ result = NotRun
    /\ serialized = NotRun
    /\ stdout = <<>>
    /\ stderr = <<>>
    /\ status = 0
    /\ ObjOff

\* A panic on the main thread.
Panic(message) ==
    /\ stderr' = Append(stderr, message)
    /\ status' = 101
    /\ pc' = "exited"

\* Faulty variant: more than one expression argument is let through.
ExprCheckArgs_AtLeast ==
    /\ pc = "main"
    /\ IF Len(argv) < 2
       THEN /\ stderr' = Append(stderr, Usage)
            /\ status' = 1
            /\ pc' = "exited"
       ELSE /\ pc' = "env_new"
            /\ UNCHANGED <<stderr, status>>
    /\ UNCHANGED <<argv, env, expr, result, serialized, stdout>>
    /\ UNCHANGED <<ty, cell, depth, state, last, iter, thr>>

\* let args = env::args().collect(); if args.len() != 2 { eprintln; exit(1) }
ExprCheckArgs ==
    /\ pc = "main"
    /\ IF Len(argv) # 2
       THEN /\ stderr' = Append(stderr, Usage)
            /\ status' = 1
            /\ pc' = "exited"
       ELSE /\ pc' = "env_new"
            /\ UNCHANGED <<stderr, status>>
    /\ UNCHANGED <<argv, env, expr, result, serialized, stdout>>
    /\ UNCHANGED <<ty, cell, depth, state, last, iter, thr>>

\* let env = Environment::new();
ExprNewEnvironment ==
    /\ pc = "env_new"
    /\ env' = TRUE
    /\ pc' = "compile"
    /\ UNCHANGED <<argv, expr, result, serialized, stdout, stderr, status>>
    /\ UNCHANGED <<ty, cell, depth, state, last, iter, thr>>

\* Faulty variant: a compile error is not unwrapped and main goes on.
ExprCompile_Unchecked ==
    /\ pc = "compile"
    /\ \E ok \in BOOLEAN :
           expr' = [tag |-> IF ok THEN "Ok" ELSE "Err", src |-> argv[2]]
    /\ pc' = "context"
    /\ UNCHANGED <<argv, env, result, serialized, stdout, stderr, status>>
    /\ UNCHANGED <<ty, cell, depth, state, last, iter, thr>>

\* let expr = env.compile_expression(&args[1]).unwrap();
ExprCompile ==
    /\ pc = "compile"
    /\ \E ok \in BOOLEAN :
           /\ expr' = [tag |-> IF ok THEN "Ok" ELSE "Err", src |-> argv[2]]
           /\ IF ok
              THEN pc' = "context" /\ UNCHANGED <<stderr, status>>
              ELSE Panic(UnwrapMessage)
    /\ UNCHANGED <<argv, env, result, serialized, stdout>>
    /\ UNCHANGED <<ty, cell, depth, state, last, iter, thr>>

\* let mut ctx = BTreeMap::new(); ctx.insert("env", std::env::vars()...);
ExprContext ==
    /\ pc = "context"
    /\ \E unicode \in BOOLEAN :
           IF unicode
           THEN pc' = "eval" /\ UNCHANGED <<stderr, status>>
           ELSE Panic(VarsMessage)
    /\ UNCHANGED <<argv, env, expr, result, serialized, stdout>>
    /\ UNCHANGED <<ty, cell, depth, state, last, iter, thr>>

\* let result = expr.eval(&ctx).unwrap();
ExprEval ==
    /\ pc = "eval"
    /\ \E ok \in BOOLEAN :
           /\ result' = [tag |-> IF ok THEN "Ok" ELSE "Err", src |-> expr.src]
           /\ IF ok
              THEN pc' = "serialize" /\ UNCHANGED <<stderr, status>>
              ELSE Panic(UnwrapMessage)
    /\ UNCHANGED <<argv, env, expr, serialized, stdout>>
    /\ UNCHANGED <<ty, cell, depth, state, last, iter, thr>>

\* let serialized = serde_json::to_string_pretty(&result).unwrap();
ExprSerialize ==
    /\ pc = "serialize"
    /\ \E ok \in BOOLEAN :
           /\ serialized' = [tag |-> IF ok THEN "Ok" ELSE "Err",
                             src |-> result.src]
           /\ IF ok
              THEN pc' = "print" /\ UNCHANGED <<stderr, status>>
              ELSE Panic(UnwrapMessage)
    /\ UNCHANGED <<argv, env, expr, result, stdout>>
    /\ UNCHANGED <<ty, cell, depth, state, last, iter, thr>>

\* println!("{}", serialized); and main returns.
ExprPrint ==
    /\ pc = "print"
    /\ stdout' = Append(stdout, serialized.src)
    /\ status' = 0
    /\ pc' = "exited"
    /\ UNCHANGED <<argv, env, expr, result, serialized, stderr>>
    /\ UNCHANGED <<ty, cell, depth, state, last, iter, thr>>

ExprNext ==
    \/ ExprCheckArgs
    \/ ExprNewEnvironment
    \/ ExprCompile
    \/ ExprContext
    \/ ExprEval
    \/ ExprSerialize
    \/ ExprPrint

ExprSpec == ExprInit /\ [][ExprNext]_vars

(* C8: a result reaches standard output only after compile, evaluate and    *)
(* serialization have all succeeded, in that order; after a failed compile  *)
(* evaluate is never reached; and when compile, evaluate or serialization   *)
(* fails the process ends with a non-zero status and nothing on standard    *)
(* output.                                                                  *)
C8_ResultOnlyAfterSuccess ==
    /\ stdout # <<>> =>
           expr.tag = "Ok" /\ result.tag = "Ok" /\ serialized.tag = "Ok"
    /\ result.tag # "none" => expr.tag = "Ok"
    /\ serialized.tag # "none" => result.tag = "Ok"
    /\ "Err" \in {expr.tag, result.tag, serialized.tag} =>
           /\ pc = "exited"
           /\ status # 0
           /\ stdout = <<>>

C8_Witness ==
    /\ pc = "exited"
    /\ expr.tag = "Ok"
    /\ expr.src = "1 + 1"
    /\ result.tag = "Err"
    /\ status # 0
    /\ stdout = <<>>

----------------------------------------------------------------------------
(* Several threads invoke one object at the same time, each through an Arc  *)
(* handle of its own that aliases the object.  A call runs on the caller's  *)
(* thread: it passes the Arc layers of the handle one by one and then runs  *)
(* T's method.  A host type with interior state guards it itself, so T's    *)
(* method is one step; nothing in the trait or the Arc impl takes a lock.   *)

\* The number of Arc layers of thread t's handle, and the State of the
\* evaluation thread t runs.
HandleDepth(t) == ((t - 1) % MaxDepth) + 1
StateOf(t) == ((t - 1) % MaxState) + 1

ConcTypes ==
    {T \in HostTypes :
        \/ AllDefault(T)
        \/ T.get_attr /\ T.attributes /\ T.call /\ T.call_method = "InvalidOperation"}

ConcCalls(t) ==
    {c \in Calls :
        /\ c.args = <<>>
        /\ c.name \in {"", "x"}
        /\ c.state \in {0, StateOf(t)}}

ConcInit ==
    /\ ty \in ConcTypes
    /\ cell = 0
    /\ depth = 0
    /\ state = 1
    /\ last = NoInvocation
    /\ iter = NoIter
    /\ thr = [t \in ThreadIds |-> IdleThread]
    /\ ExprOff

\* Thread t starts a call on its handle.
ConcBegin(t) ==
    /\ thr[t].pc = "idle"
    /\ \E c \in ConcCalls(t) :
           thr' = [thr EXCEPT ![t] =
                      [pc |-> "calling", orig |-> c, cur |-> c,
                       n |-> HandleDepth(t), level |-> HandleDepth(t),
                       ret |-> None]]
    /\ UNCHANGED <<ty, cell, depth, state, last, iter>>
    /\ UNCHANGED exprVars

\* The outermost remaining Arc layer makes its call on the value it wraps.
ConcForward(t) ==
    /\ thr[t].pc = "calling"
    /\ thr[t].level > 0
    /\ thr' = [thr EXCEPT ![t].cur = Arc_forward(thr[t].cur),
                          ![t].level = thr[t].level - 1]
    /\ UNCHANGED <<ty, cell, depth, state, last, iter>>
    /\ UNCHANGED exprVars

\* Faulty variant: T's method runs only while no other call is in flight.
ConcExecute_Exclusive(t) ==
    /\ thr[t].pc = "calling"
    /\ thr[t].level = 0
    /\ \A u \in ThreadIds \ {t} : thr[u].pc # "calling"
    /\ LET r == T_invoke(ty, cell, thr[t].cur)
       IN  /\ r.self <= MaxCell
           /\ cell' = r.self
           /\ thr' = [thr EXCEPT ![t].pc = "returned", ![t].ret = r.ret]
    /\ UNCHANGED <<ty, depth, state, last, iter>>
    /\ UNCHANGED exprVars

\* T's method runs and its result goes back through the layers unchanged.
ConcExecute(t) ==
    /\ thr[t].pc = "calling"
    /\ thr[t].level = 0
    /\ LET r == T_invoke(ty, cell, thr[t].cur)
       IN  /\ r.self <= MaxCell
           /\ cell' = r.self
           /\ thr' = [thr EXCEPT ![t].pc = "returned", ![t].ret = r.ret]
    /\ UNCHANGED <<ty, depth, state, last, iter>>
    /\ UNCHANGED exprVars

\* The caller takes the result; the thread is free for its next call.
ConcFinish(t) ==
    /\ thr[t].pc = "returned"
    /\ thr' = [thr EXCEPT ![t] = IdleThread]
    /\ UNCHANGED <<ty, cell, depth, state, last, iter>>
    /\ UNCHANGED exprVars

ConcStep(t) == ConcForward(t) \/ ConcExecute(t)

ConcNext ==
    \E t \in ThreadIds :
        \/ ConcBegin(t)
        \/ ConcForward(t)
        \/ ConcExecute(t)
        \/ ConcFinish(t)

\* Every thread that is in a call and can take a step is scheduled.
ConcFairSpec ==
    /\ ConcInit
    /\ [][ConcNext]_vars
    /\ \A t \in ThreadIds : WF_vars(ConcStep(t))

\* While the object uses the provided operations only: a call in flight can
\* always take its next step whatever the other threads are doing, and a
\* returned call has the result the same call gives on the object by itself.
ConcSafe ==
    AllDefault(ty) =>
        \A t \in ThreadIds :
            /\ thr[t].pc = "calling" => ENABLED ConcStep(t)
            /\ thr[t].pc = "returned" =>
                   thr[t].ret = T_invoke(ty, 0, thr[t].orig).ret

(* C10: when several threads invoke the four operations at the same time    *)
(* through Arc handles aliasing one object that uses the provided           *)
(* operations, then under every interleaving each call completes, no call   *)
(* waits for another, and each returns the result it returns when run       *)
(* alone.                                                                   *)
C10_ConcurrentCalls ==
    /\ []ConcSafe
    /\ \A t \in ThreadIds :
           (AllDefault(ty) /\ thr[t].pc = "calling") ~> (thr[t].pc = "returned")

C10_Witness ==
    /\ AllDefault(ty)
    /\ \A t \in ThreadIds : thr[t].pc = "returned"
    /\ \E t \in ThreadIds : thr[t].n >= 2
    /\ \E t, u \in ThreadIds : thr[t].orig.op # thr[u].orig.op

====
